---- MODULE Spec2Model ----
(***************************************************************************)
(* Learning progression and assessment engine of the Social Engineering   *)
(* Awareness application: the learner routes of app.py, the completion    *)
(* validator of UserService and the policy functions of                   *)
(* ModuleManagerService, over the tables of data_models.                  *)
(***************************************************************************)
EXTENDS Integers, Sequences, FiniteSets, TLC

(***************************************************************************)
(* Bounds of the model.                                                    *)
(***************************************************************************)
NumModules == 3
BankSize == 2
FinalBankSize == 2
MaxAssessmentResults == 3
MaxFinalAttempts == 4
MaxSimulationResults == 1
MaxTicks == 1
MaxFeedbackSurveys == 1
MaxGradedQuestions == 3
MaxTotalQuestions == 5
MaxBankQuestions == 4
MaxDesiredCount == 5
FinalSetSize == 6
MaxAttemptNumber == 4
ServedCount == 1
MaxHistoryRecords == 2
MaxOptions == 4
MaxSimulationAttempts == 3

(***************************************************************************)
(* Program constants.                                                      *)
(***************************************************************************)
KNOWLEDGE_CHECK_PASSING_SCORE == 80
KNOWLEDGE_CHECK_NUM_QUESTIONS == 5
FINAL_ASSESSMENT_PASSING_SCORE == 70
FINAL_ASSESSMENT_MAX_RETAKES == 3
FINAL_ASSESSMENT_COOLDOWN_HOURS == 48
SecondsPerHour == 3600
KNOWLEDGE_CHECK_PASSING_THRESHOLD == 80
FINAL_ASSESSMENT_QUESTION_COUNT == 25
KNOWLEDGE_CHECK_QUESTION_COUNT == 5
QuestionSetMethods == 3
ModuleSetSize == 5
FINAL_ASSESSMENT_PASSING_THRESHOLD == 80
SIMULATION_PASSING_PERCENTAGE == 70

\* Python's None, for the integer-valued and the string-valued places.
NoneInt == 0 - 1
NoneStr == "None"

VARIABLES
    now,                \* the clock read by datetime.utcnow() / datetime.now()
    ticks,              \* number of clock jumps taken so far (bounds the run)
    assessment_result,  \* table AssessmentResult, in insertion (id) order
    simulation_result,  \* table SimulationResult, in insertion (id) order
    feedback_survey,    \* table FeedbackSurvey, in insertion (id) order
    user_progress,      \* table UserProgress, one row per (user, module)
    session,            \* session['kc_qids_<module>'] of each learner
    response,           \* what the last request answered
    call,               \* the last evaluation of a policy function
    open_page           \* the knowledge-check form a browser tab holds

vars == <<now, ticks, assessment_result, simulation_result, feedback_survey,
          user_progress, session, response, call, open_page>>

db == <<assessment_result, simulation_result, feedback_survey, user_progress>>

(***************************************************************************)
(* Learners and the seeded content.                                        *)
(***************************************************************************)
Learners == {1}

\* create_default_modules: module i has id i and order i.
Modules == 1..NumModules

\* The module ids a request may name: the seeded ones and one that is absent.
ModuleIds == 1..(NumModules + 1)

\* Module.get_all_ordered(): the module ids sorted by their order column.
Module_get_all_ordered == [i \in 1..NumModules |-> i]

\* Module.get_by_id(module_id) is not None
ModuleExists(m) == m \in Modules

\* Module.has_simulation as seeded: modules 2-5 have simulations.
has_simulation(m) == m \in {2, 3, 4, 5}

\* KnowledgeCheckQuestion rows of a module, in id order.
\* The first module has BankSize questions, every other module has one.
KnowledgeCheckQuestion_filter_by_module(m) ==
    IF ~ModuleExists(m) THEN <<>>
    ELSE IF m = 1 THEN [i \in 1..BankSize |-> i]
    ELSE <<BankSize + m - 1>>

KCQuestionIds(m) ==
    {KnowledgeCheckQuestion_filter_by_module(m)[i] :
        i \in DOMAIN KnowledgeCheckQuestion_filter_by_module(m)}

\* FinalAssessmentQuestion rows, in id order.
FinalAssessmentQuestion_all == [i \in 1..FinalBankSize |-> i]

\* QuestionBase.correct_answer, stored lower-cased, one of a, b, c, d.
correct_answer(q) == IF q % 2 = 1 THEN "a" ELSE "b"

\* What a form field may hold: a letter in either case, or nothing.
AnswerChoices == {"a", "b", "A", NoneStr}

Range(s) == {s[i] : i \in DOMAIN s}

\* All sequences of k distinct elements of S.
InjSeqs(S, k) ==
    {s \in [1..k -> S] : \A i, j \in 1..k : i # j => s[i] # s[j]}

\* random.sample(population, k)
random_sample(population, k) == InjSeqs(Range(population), k)

\* random.shuffle(x)
random_shuffle(x) == InjSeqs(Range(x), Len(x))

\* int((correct / total) * 100), 0 when total is 0.  For the totals of the
\* model the float product truncates to the integer quotient.
IntPercentage(correct, total) ==
    IF total > 0 THEN (correct * 100) \div total ELSE 0

(***************************************************************************)
(* Queries.                                                                *)
(***************************************************************************)
\* AssessmentResult.query.filter_by(user_id, module_id,
\*   assessment_type='knowledge_check'), in insertion order.
KnowledgeCheckResults(u, m) ==
    LET Test(r) == /\ r.user_id = u
                   /\ r.module_id = m
                   /\ r.assessment_type = "knowledge_check"
    IN  SelectSeq(assessment_result, Test)

\* AssessmentResult.query.filter_by(user_id, assessment_type='final_assessment')
FinalResults(u) ==
    LET Test(r) == r.user_id = u /\ r.assessment_type = "final_assessment"
    IN  SelectSeq(assessment_result, Test)

\* ....filter_by(user_id, assessment_type='final_assessment', passed=True).first()
\* is not None
HasPassedFinal(u) ==
    \E i \in DOMAIN assessment_result :
        /\ assessment_result[i].user_id = u
        /\ assessment_result[i].assessment_type = "final_assessment"
        /\ assessment_result[i].passed

\* FeedbackSurvey.query.filter_by(user_id).first() is not None
HasSurvey(u) ==
    \E i \in DOMAIN feedback_survey : feedback_survey[i].user_id = u

\* The record of the best percentage instead of the latest one.
BestOf(rows) ==
    CHOOSE i \in DOMAIN rows :
        \A j \in DOMAIN rows :
            IntPercentage(rows[j].score, rows[j].total_questions)
                <= IntPercentage(rows[i].score, rows[i].total_questions)

\* order_by(created_at.desc()).first(): a row whose created_at is the
\* greatest.  The clock moves on with every insert, so there is one.
LatestOf(rows) ==
    CHOOSE i \in DOMAIN rows :
        \A j \in DOMAIN rows : rows[j].created_at <= rows[i].created_at

\* SimulationResult.query.filter_by(user_id, module_id, completed=True).first()
\* is not None
HasCompletedSimulation(u, m) ==
    \E i \in DOMAIN simulation_result :
        /\ simulation_result[i].user_id = u
        /\ simulation_result[i].module_id = m
        /\ simulation_result[i].completed

\* (score / total_questions) * 100 < threshold, the percentage being 0 when
\* total_questions is 0; the comparison of the float with the whole-number
\* threshold is the comparison of the cross products.
PercentageBelow(score, total_questions, threshold) ==
    IF total_questions > 0
    THEN score * 100 < threshold * total_questions
    ELSE 0 < threshold

(***************************************************************************)
(* UserService: the module completion validator.                           *)
(***************************************************************************)
\* is_module_fully_completed without the simulation requirement.
is_module_fully_completed_no_simulation(u, m) ==
    IF ~ModuleExists(m) THEN FALSE
    ELSE LET rows == KnowledgeCheckResults(u, m) IN
         IF rows = <<>> THEN FALSE
         ELSE LET knowledge_check_result == rows[LatestOf(rows)] IN
              ~PercentageBelow(knowledge_check_result.score,
                               knowledge_check_result.total_questions, 80)

is_module_fully_completed(u, m) ==
    IF ~ModuleExists(m) THEN FALSE
    ELSE LET rows == KnowledgeCheckResults(u, m) IN
         IF rows = <<>> THEN FALSE
         ELSE LET knowledge_check_result == rows[LatestOf(rows)] IN
              IF PercentageBelow(knowledge_check_result.score,
                                 knowledge_check_result.total_questions, 80)
              THEN FALSE
              ELSE IF has_simulation(m) /\ ~HasCompletedSimulation(u, m)
                   THEN FALSE
                   ELSE TRUE

get_user_completed_modules(u) ==
    {m \in Modules : is_module_fully_completed(u, m)}

(***************************************************************************)
(* Responses and rows.                                                     *)
(***************************************************************************)
\* The answer to a request of learner u: a rendered template or a redirect.
Render(u, route, m, template) ==
    [user_id |-> u, route |-> route, module_id |-> m, kind |-> "render",
     target |-> template, accessible_modules |-> <<>>]

Redirect(u, route, m, endpoint) ==
    [user_id |-> u, route |-> route, module_id |-> m, kind |-> "redirect",
     target |-> endpoint, accessible_modules |-> <<>>]

\* No request has been answered since the tables last changed underneath.
NoResponse ==
    [user_id |-> NoneInt, route |-> "none", module_id |-> NoneInt,
     kind |-> "none", target |-> "none", accessible_modules |-> <<>>]

\* A UserProgress row that does not exist.
\* No knowledge-check page is open in the browser.
NoPage ==
    [user_id |-> NoneInt, module_id |-> NoneInt, questions |-> <<>>,
     answers |-> <<>>, results_before |-> 0]

NoProgress ==
    [status |-> "absent", score |-> 0, completed_at |-> NoneInt]

\* UserProgress(user_id, module_id, status=...): score defaults to 0.
UserProgress(status) ==
    [status |-> status, score |-> 0, completed_at |-> NoneInt]

\* AssessmentResult(...) as the routes build it; created_at defaults to the
\* time of the insert.
AssessmentResult(u, m, type, score, total, correct, passed) ==
    [user_id |-> u, module_id |-> m, assessment_type |-> type,
     score |-> score, total_questions |-> total,
     correct_answers |-> correct, passed |-> passed, created_at |-> now]

\* The number of questions of qs whose form field equals correct_answer.
RECURSIVE CountCorrect(_, _)
CountCorrect(qs, form) ==
    IF qs = <<>> THEN 0
    ELSE (IF form[Head(qs)] = correct_answer(Head(qs)) THEN 1 ELSE 0)
         + CountCorrect(Tail(qs), form)

(***************************************************************************)
(* Learning routes.                                                        *)
(***************************************************************************)
\* The gate of the module and assessment pages.
PreviousModuleCompleted(u, m) ==
    m = 1 \/ is_module_fully_completed(u, m - 1)

\* accessible_modules looking up module i instead of module i - 1.
AccessibleModules_same_index(u) ==
    [i \in 1..NumModules |->
        IF i = 1 THEN TRUE ELSE is_module_fully_completed(u, i)]

\* GET /dashboard: accessible_modules, one flag per i in 1..total_modules,
\* the previous module being looked up by the id i - 1.
AccessibleModules(u) ==
    [i \in 1..NumModules |->
        IF i = 1 THEN TRUE ELSE is_module_fully_completed(u, i - 1)]

dashboard(u) ==
    /\ response' = [Render(u, "dashboard", NoneInt, "dashboard.html")
                      EXCEPT !.accessible_modules = AccessibleModules(u)]
    /\ UNCHANGED <<now, ticks, db, session, call, open_page>>

\* GET /module/<module_id>
module(u, m) ==
    /\ IF ~ModuleExists(m)
       THEN /\ response' = Redirect(u, "module", m, "dashboard")
            /\ UNCHANGED user_progress
       ELSE IF ~PreviousModuleCompleted(u, m)
       THEN /\ response' = Redirect(u, "module", m, "dashboard")
            /\ UNCHANGED user_progress
       ELSE /\ user_progress' =
                 IF user_progress[u][m] = NoProgress
                 THEN [user_progress EXCEPT ![u][m] = UserProgress("not_started")]
                 ELSE user_progress
            /\ response' = Render(u, "module", m, "module.html")
    /\ UNCHANGED <<now, ticks, assessment_result, simulation_result,
                   feedback_survey, session, call, open_page>>

\* GET /assessment/<module_id>, under a deployment whose
\* app.config['KNOWLEDGE_CHECK_NUM_QUESTIONS'] is desired_count.
assessment_page(u, m, desired_count) ==
    /\ IF ~ModuleExists(m)
       THEN /\ response' = Redirect(u, "assessment", m, "dashboard")
            /\ UNCHANGED session
       ELSE IF m > 1 /\ ~is_module_fully_completed(u, m - 1)
       THEN /\ response' = Redirect(u, "assessment", m, "dashboard")
            /\ UNCHANGED session
       ELSE LET all_questions == KnowledgeCheckQuestion_filter_by_module(m)
            IN  IF all_questions = <<>>
                THEN /\ response' = Redirect(u, "assessment", m, "module")
                     /\ UNCHANGED session
                ELSE \E questions \in
                          (IF Len(all_questions) > desired_count
                              /\ desired_count > 0
                           THEN random_sample(all_questions, desired_count)
                           ELSE random_shuffle(all_questions)) :
                        /\ session' = [session EXCEPT ![u][m] = questions]
                        /\ response' =
                             Render(u, "assessment", m, "assessment_simple.html")
    /\ UNCHANGED <<now, ticks, db, call, open_page>>

\* GET /assessment/<module_id> under the default configuration.
assessment(u, m) == assessment_page(u, m, KNOWLEDGE_CHECK_NUM_QUESTIONS)

\* The questions submit_assessment grades when it ignores the pinned list.
GradedQuestions_full_bank(u, m) ==
    KnowledgeCheckQuestion_filter_by_module(m)

\* The questions submit_assessment grades: the pinned ones that still exist,
\* in pinned order, or the whole bank when nothing is pinned.
GradedQuestions(u, m) ==
    LET qids == session[u][m]
        InTable(q) == q \in KCQuestionIds(m)
    IN  IF qids # <<>>
        THEN SelectSeq(qids, InTable)
        ELSE KnowledgeCheckQuestion_filter_by_module(m)

\* POST /submit_assessment/<module_id>
submit_assessment(u, m, form, save_ok) ==
    IF ~ModuleExists(m)
    THEN /\ response' = Redirect(u, "submit_assessment", m, "dashboard")
         /\ UNCHANGED <<now, ticks, db, session, call, open_page>>
    ELSE LET questions == GradedQuestions(u, m) IN
         IF questions = <<>>
         THEN /\ response' = Redirect(u, "submit_assessment", m, "module")
              /\ UNCHANGED <<now, ticks, db, session, call, open_page>>
         ELSE LET correct_answers == CountCorrect(questions, form)
                  total_questions == Len(questions)
                  score == correct_answers
                  percentage == IntPercentage(correct_answers, total_questions)
                  passed == percentage >= KNOWLEDGE_CHECK_PASSING_SCORE
                  result == AssessmentResult(u, m, "knowledge_check", score,
                                total_questions, correct_answers, passed)
                  progress == user_progress[u][m]
              IN  IF save_ok
                  THEN /\ assessment_result' = Append(assessment_result, result)
                       /\ now' = now + 1
                       /\ user_progress' =
                            IF progress = NoProgress THEN user_progress
                            ELSE [user_progress EXCEPT ![u][m] =
                                    [status |-> IF passed THEN "completed"
                                                ELSE progress.status,
                                     score |-> percentage,
                                     completed_at |-> IF passed THEN now
                                                      ELSE progress.completed_at]]
                       /\ session' = [session EXCEPT ![u][m] = <<>>]
                       /\ response' = Render(u, "submit_assessment", m,
                                             "assessment_result.html")
                       /\ UNCHANGED <<ticks, simulation_result,
                                      feedback_survey, call, open_page>>
                  ELSE /\ response' =
                            Redirect(u, "submit_assessment", m, "module")
                       /\ UNCHANGED <<now, ticks, db, session, call, open_page>>

\* The page rendered by GET /assessment/<module_id> stays in a browser tab
\* with the options the learner chose on it: its questions are the ones the
\* request has just served and pinned.
fill_assessment_page(u, m, answers) ==
    /\ response = Render(u, "assessment", m, "assessment_simple.html")
    /\ open_page' = [user_id |-> u, module_id |-> m,
                     questions |-> session[u][m], answers |-> answers,
                     results_before |-> Len(assessment_result)]
    /\ UNCHANGED <<now, ticks, db, session, response, call>>

\* What request.form.get('question_<id>') reads from the posted page: the
\* chosen option of a question of the page, None for any other question.
PageForm(page) ==
    [q \in KCQuestionIds(page.module_id) |->
        IF q \in DOMAIN page.answers THEN page.answers[q] ELSE NoneStr]

\* POST /submit_assessment/<module_id> with the form of the open page; the
\* page stays in the tab and can be posted again.
submit_assessment_page(u, save_ok) ==
    /\ open_page.user_id = u
    /\ submit_assessment(u, open_page.module_id, PageForm(open_page), save_ok)

\* What POST /update_progress answers: a JSON body, success or an error.
Json(u, m, body) ==
    [user_id |-> u, route |-> "update_progress", module_id |-> m,
     kind |-> "json", target |-> body, accessible_modules |-> <<>>]

\* update_progress that also writes the posted score into the stored
\* attempt records of the module.
update_progress_rewriting_attempts(u, module_id, status, score, save_ok) ==
    IF module_id = NoneInt
    THEN /\ response' = Json(u, module_id, "Module ID required")
         /\ UNCHANGED <<now, ticks, db, session, call, open_page>>
    ELSE IF ~save_ok
    THEN /\ response' = Json(u, module_id, "Failed to save progress")
         /\ UNCHANGED <<now, ticks, db, session, call, open_page>>
    ELSE /\ user_progress' =
              [user_progress EXCEPT ![u][module_id] =
                  [status |-> status, score |-> score,
                   completed_at |-> user_progress[u][module_id].completed_at]]
         /\ assessment_result' =
              [i \in DOMAIN assessment_result |->
                  IF assessment_result[i].module_id = module_id
                  THEN [assessment_result[i] EXCEPT !.score = score]
                  ELSE assessment_result[i]]
         /\ response' = Json(u, module_id, "success")
         /\ UNCHANGED <<now, ticks, simulation_result, feedback_survey,
                        session, call, open_page>>

\* POST /update_progress without a topic_id: the module-level mark.
update_progress(u, module_id, status, score, save_ok) ==
    IF module_id = NoneInt
    THEN /\ response' = Json(u, module_id, "Module ID required")
         /\ UNCHANGED <<now, ticks, db, session, call, open_page>>
    ELSE IF ~save_ok
    THEN /\ response' = Json(u, module_id, "Failed to save progress")
         /\ UNCHANGED <<now, ticks, db, session, call, open_page>>
    ELSE /\ user_progress' =
              [user_progress EXCEPT ![u][module_id] =
                  [status |-> status, score |-> score,
                   completed_at |-> user_progress[u][module_id].completed_at]]
         /\ response' = Json(u, module_id, "success")
         /\ UNCHANGED <<now, ticks, assessment_result, simulation_result,
                        feedback_survey, session, call, open_page>>

\* ModuleService.start_module: a missing row is created in_progress, an
\* existing one is put back to in_progress by UserProgress.start_progress.
start_module(u, module_id, save_ok) ==
    /\ user_progress' =
         IF ~save_ok THEN user_progress
         ELSE IF user_progress[u][module_id] = NoProgress
         THEN [user_progress EXCEPT ![u][module_id] =
                  UserProgress("in_progress")]
         ELSE [user_progress EXCEPT ![u][module_id].status = "in_progress"]
    /\ call' = [fn |-> "start_module",
                args |-> [user_id |-> u, module_id |-> module_id],
                result |-> TRUE]
    /\ UNCHANGED <<now, ticks, assessment_result, simulation_result,
                   feedback_survey, session, response, open_page>>

\* ModuleService.complete_module: UserProgress.complete_progress and
\* User.update_progress leave the row completed with the given score.
complete_module(u, module_id, score, save_ok) ==
    /\ user_progress' =
         IF ~save_ok THEN user_progress
         ELSE [user_progress EXCEPT ![u][module_id] =
                  [status |-> "completed", score |-> score,
                   completed_at |-> now]]
    /\ call' = [fn |-> "complete_module",
                args |-> [user_id |-> u, module_id |-> module_id,
                          score |-> score],
                result |-> save_ok]
    /\ UNCHANGED <<now, ticks, assessment_result, simulation_result,
                   feedback_survey, session, response, open_page>>

(***************************************************************************)
(* Final assessment routes.                                                *)
(***************************************************************************)
\* GET /final_assessment
final_assessment(u) ==
    /\ LET completed_modules == Cardinality(get_user_completed_modules(u))
           total_modules == NumModules
       IN  IF completed_modules < total_modules
           THEN response' = Redirect(u, "final_assessment", NoneInt, "dashboard")
           ELSE IF HasPassedFinal(u)
           THEN response' = Redirect(u, "final_assessment", NoneInt, "dashboard")
           ELSE response' = Render(u, "final_assessment", NoneInt,
                                   "final_assessment_simple.html")
    /\ UNCHANGED <<now, ticks, db, session, call, open_page>>

\* GET /final_assessment_questions
final_assessment_questions(u) ==
    /\ IF FinalAssessmentQuestion_all = <<>>
       THEN response' = Redirect(u, "final_assessment_questions", NoneInt,
                                 "dashboard")
       ELSE response' = Render(u, "final_assessment_questions", NoneInt,
                               "final_assessment_questions.html")
    /\ UNCHANGED <<now, ticks, db, session, call, open_page>>

\* POST /submit_final_assessment
submit_final_assessment(u, form, save_ok) ==
    LET questions == FinalAssessmentQuestion_all IN
    IF questions = <<>>
    THEN /\ response' = Redirect(u, "submit_final_assessment", NoneInt,
                                 "dashboard")
         /\ UNCHANGED <<now, ticks, db, session, call, open_page>>
    ELSE LET correct_answers == CountCorrect(questions, form)
             total_questions == Len(questions)
             score == correct_answers
             percentage == IntPercentage(correct_answers, total_questions)
             passed == percentage >= FINAL_ASSESSMENT_PASSING_SCORE
             result == AssessmentResult(u, NoneInt, "final_assessment", score,
                           total_questions, correct_answers, passed)
         IN  IF save_ok
             THEN /\ assessment_result' = Append(assessment_result, result)
                  /\ now' = now + 1
                  /\ response' = Render(u, "submit_final_assessment", NoneInt,
                                        "final_assessment_result.html")
                  /\ UNCHANGED <<ticks, simulation_result, feedback_survey,
                                 user_progress, session, call, open_page>>
             ELSE /\ response' = Redirect(u, "submit_final_assessment", NoneInt,
                                          "final_assessment")
                  /\ UNCHANGED <<now, ticks, db, session, call, open_page>>

(***************************************************************************)
(* Survey and certificate routes.                                          *)
(***************************************************************************)
\* The attributes the declarative constructor of FeedbackSurvey accepts.
FeedbackSurveyAttributes ==
    {"id", "user_id", "module_id", "rating", "feedback_text",
     "difficulty_level", "additional_questions", "created_at", "updated_at",
     "user", "module"}

\* FeedbackSurvey(**kwargs): FALSE when the constructor raises (a rating that
\* is None or outside 1..5, or a keyword that names no attribute).
FeedbackSurvey_init_ok(kwargs) ==
    /\ "rating" \in DOMAIN kwargs =>
           /\ kwargs.rating # NoneInt
           /\ 1 <= kwargs.rating /\ kwargs.rating <= 5
    /\ DOMAIN kwargs \subseteq FeedbackSurveyAttributes

\* GET /survey
survey(u) ==
    /\ IF ~HasPassedFinal(u)
       THEN response' = Redirect(u, "survey", NoneInt, "dashboard")
       ELSE IF HasSurvey(u)
       THEN response' = Redirect(u, "survey", NoneInt, "dashboard")
       ELSE response' = Render(u, "survey", NoneInt, "survey.html")
    /\ UNCHANGED <<now, ticks, db, session, call, open_page>>

\* POST /submit_survey
submit_survey(u, rating, feedback, save_ok) ==
    LET kwargs == [user_id |-> u, rating |-> rating, feedback |-> feedback]
    IN  IF ~FeedbackSurvey_init_ok(kwargs)
        THEN /\ response' = Redirect(u, "submit_survey", NoneInt, "survey")
             /\ UNCHANGED <<now, ticks, db, session, call, open_page>>
        ELSE IF save_ok
        THEN /\ feedback_survey' =
                  Append(feedback_survey, [user_id |-> u, rating |-> rating])
             /\ response' = Redirect(u, "submit_survey", NoneInt, "certificate")
             /\ UNCHANGED <<now, ticks, assessment_result, simulation_result,
                            user_progress, session, call, open_page>>
        ELSE /\ response' = Redirect(u, "submit_survey", NoneInt, "survey")
             /\ UNCHANGED <<now, ticks, db, session, call, open_page>>

\* The certificate route without the survey check.
certificate_no_survey_check(u) ==
    /\ IF ~HasPassedFinal(u)
       THEN response' = Redirect(u, "certificate", NoneInt, "dashboard")
       ELSE response' = Render(u, "certificate", NoneInt, "certificate.html")
    /\ UNCHANGED <<now, ticks, db, session, call, open_page>>

\* GET /certificate
certificate(u) ==
    /\ LET final_result == HasPassedFinal(u)
           survey_completed == HasSurvey(u)
       IN  IF ~final_result
           THEN response' = Redirect(u, "certificate", NoneInt, "dashboard")
           ELSE IF ~survey_completed
           THEN response' = Redirect(u, "certificate", NoneInt, "survey")
           ELSE response' = Render(u, "certificate", NoneInt, "certificate.html")
    /\ UNCHANGED <<now, ticks, db, session, call, open_page>>

(***************************************************************************)
(* Operations of the data and service layers.                              *)
(***************************************************************************)
\* FeedbackSurvey(user_id=..., rating=...).save()
FeedbackSurvey_save(u, rating) ==
    /\ Len(feedback_survey) < MaxFeedbackSurveys
    /\ FeedbackSurvey_init_ok([user_id |-> u, rating |-> rating])
    /\ feedback_survey' =
           Append(feedback_survey, [user_id |-> u, rating |-> rating])
    /\ response' = NoResponse
    /\ UNCHANGED <<now, ticks, assessment_result, simulation_result,
                   user_progress, session, call, open_page>>

SimulationTypes == {"phishing", "pretexting", "baiting", "quid_pro_quo"}

\* SimulationService.save_simulation_result: the row is completed by
\* complete_simulation before it is saved.
SimulationService_save_simulation_result(u, simulation_type, score, m) ==
    /\ simulation_type \in SimulationTypes
    /\ simulation_result' =
           Append(simulation_result,
                  [user_id |-> u, module_id |-> m,
                   simulation_type |-> simulation_type,
                   score |-> score, completed |-> TRUE])
    /\ response' = NoResponse
    /\ UNCHANGED <<now, ticks, assessment_result, feedback_survey,
                   user_progress, session, call, open_page>>

\* SimulationService.save_simulation_result while the table has room.
save_simulation_result(u, simulation_type, score, m) ==
    /\ Len(simulation_result) < MaxSimulationResults
    /\ SimulationService_save_simulation_result(u, simulation_type, score, m)

\* POST /submit_simulation: simulation_service.evaluate_simulation is not a
\* method of SimulationService, the call raises and the except branch
\* answers with the error.
submit_simulation(u, simulation_type) ==
    /\ response' = [user_id |-> u, route |-> "submit_simulation",
                    module_id |-> NoneInt, kind |-> "json",
                    target |-> "error", accessible_modules |-> <<>>]
    /\ UNCHANGED <<now, ticks, db, session, call, open_page>>

(***************************************************************************)
(* The clock.                                                              *)
(***************************************************************************)
TickSteps ==
    {47 * SecondsPerHour, FINAL_ASSESSMENT_COOLDOWN_HOURS * SecondsPerHour}

Tick(d) ==
    /\ ticks < MaxTicks
    /\ now' = now + d
    /\ ticks' = ticks + 1
    /\ UNCHANGED <<db, session, response, call, open_page>>

(***************************************************************************)
(* ModuleManagerService: the policy functions.                             *)
(***************************************************************************)
MAX_ATTEMPTS_PER_MODULE == 10

\* bool(last_attempt_time): None and the empty string are falsy.
Truthy(last_attempt_time) == last_attempt_time.kind \notin {"none", "empty"}

\* datetime.fromisoformat(last_attempt_time.replace('Z', '+00:00')): the
\* instant an ISO string denotes; anything else raises.
datetime_fromisoformat(last_attempt_time) ==
    IF last_attempt_time.kind = "iso"
    THEN [ok |-> TRUE, t |-> last_attempt_time.t]
    ELSE [ok |-> FALSE, t |-> 0]

\* The cooldown test with > in place of >=.
CooldownCompleted_strict(time_diff) ==
    time_diff > FINAL_ASSESSMENT_COOLDOWN_HOURS * SecondsPerHour

\* time_diff.total_seconds() >= FINAL_ASSESSMENT_COOLDOWN_HOURS * 3600
CooldownCompleted(time_diff) ==
    time_diff >= FINAL_ASSESSMENT_COOLDOWN_HOURS * SecondsPerHour

\* The last return, failing open.
MaximumAttemptsReached_open ==
    [can_retake |-> TRUE,
     reason |-> "Maximum attempts reached. Wait 48 hours to retry.",
     attempts_remaining |-> FINAL_ASSESSMENT_MAX_RETAKES]

\* The last return of _can_retake_final_assessment: no usable timestamp.
MaximumAttemptsReached ==
    [can_retake |-> FALSE,
     reason |-> "Maximum attempts reached. Wait 48 hours to retry.",
     attempts_remaining |-> 0]

_can_retake_final_assessment(current_attempts, last_attempt_time) ==
    IF current_attempts < FINAL_ASSESSMENT_MAX_RETAKES
    THEN [can_retake |-> TRUE,
          reason |-> "Attempt n of 3",
          attempts_remaining |->
              FINAL_ASSESSMENT_MAX_RETAKES - current_attempts]
    ELSE LET last_attempt == datetime_fromisoformat(last_attempt_time)
             time_diff == now - last_attempt.t
         IN  IF Truthy(last_attempt_time) /\ last_attempt.ok
             THEN IF CooldownCompleted(time_diff)
                  THEN [can_retake |-> TRUE,
                        reason |-> "48-hour cooldown period completed",
                        attempts_remaining |-> FINAL_ASSESSMENT_MAX_RETAKES,
                        cooldown_reset |-> TRUE]
                  ELSE [can_retake |-> FALSE,
                        reason |-> "48-hour cooldown period active",
                        attempts_remaining |-> 0,
                        \* a number of hours, as the fraction num / den
                        cooldown_remaining_hours |->
                            [num |-> FINAL_ASSESSMENT_COOLDOWN_HOURS
                                       * SecondsPerHour - time_diff,
                             den |-> SecondsPerHour]]
             ELSE MaximumAttemptsReached

can_retake_knowledge_check(module_number, user_id, current_attempts, last_attempt_time) ==
    IF module_number = 6
    THEN _can_retake_final_assessment(current_attempts, last_attempt_time)
    ELSE [can_retake |-> current_attempts < MAX_ATTEMPTS_PER_MODULE,
          reason |-> "Regular module retake policy",
          attempts_remaining |-> MAX_ATTEMPTS_PER_MODULE - current_attempts]

\* can_generate_certificate without the survey requirement.
can_generate_certificate_final_only(user_id, final_assessment_passed, survey_completed) ==
    IF ~final_assessment_passed
    THEN [can_generate |-> FALSE,
          reason |-> "Final assessment not passed",
          requirements_met |-> FALSE]
    ELSE [can_generate |-> TRUE,
          reason |-> "All requirements met",
          requirements_met |-> TRUE]

can_generate_certificate(user_id, final_assessment_passed, survey_completed) ==
    IF ~final_assessment_passed
    THEN [can_generate |-> FALSE,
          reason |-> "Final assessment not passed",
          requirements_met |-> FALSE]
    ELSE IF ~survey_completed
    THEN [can_generate |-> FALSE,
          reason |-> "Satisfaction survey not completed",
          requirements_met |-> FALSE,
          missing_requirement |-> "survey"]
    ELSE [can_generate |-> TRUE,
          reason |-> "All requirements met",
          requirements_met |-> TRUE]

\* Module.name of a seeded module, the title of its content.
Module_name(m) == "Module " \o ToString(m)

\* ModuleService.get_module_prerequisites: the modules of a lower order.
get_module_prerequisites(module_id) ==
    IF ~ModuleExists(module_id) THEN {}
    ELSE {p \in Modules : p < module_id}

\* check_module_eligibility answering a missing prerequisite with the
\* boolean alone.
check_module_eligibility_bare(user_id, module_id, query_ok) ==
    IF ~query_ok
    THEN [eligible |-> FALSE, reason |-> "Error checking eligibility"]
    ELSE IF ~ModuleExists(module_id)
    THEN [eligible |-> FALSE, reason |-> "Module not found"]
    ELSE IF \E p \in get_module_prerequisites(module_id) :
                user_progress[user_id][p].status # "completed"
    THEN [eligible |-> FALSE]
    ELSE [eligible |-> TRUE, reason |-> "All prerequisites completed"]

\* ModuleService.check_module_eligibility; query_ok is false when a query
\* of the function raises.
check_module_eligibility(user_id, module_id, query_ok) ==
    IF ~query_ok
    THEN [eligible |-> FALSE, reason |-> "Error checking eligibility"]
    ELSE IF ~ModuleExists(module_id)
    THEN [eligible |-> FALSE, reason |-> "Module not found"]
    ELSE LET prerequisites == get_module_prerequisites(module_id)
             incomplete ==
                 {p \in prerequisites :
                     user_progress[user_id][p].status # "completed"}
         IN  IF incomplete # {}
             THEN LET prereq ==
                          CHOOSE p \in incomplete :
                              \A q \in incomplete : p <= q
                  IN  [eligible |-> FALSE,
                       reason |-> "Must complete " \o Module_name(prereq)
                                      \o " first",
                       prerequisite |-> prereq]
             ELSE [eligible |-> TRUE,
                   reason |-> "All prerequisites completed"]

Call_check_module_eligibility(u, module_id, query_ok) ==
    /\ call' = [fn |-> "check_module_eligibility",
                args |-> [user_id |-> u, module_id |-> module_id],
                result |-> check_module_eligibility(u, module_id, query_ok)]
    /\ UNCHANGED <<now, ticks, db, session, response, open_page>>

\* One evaluation of a policy function, with its arguments and its result.
Call_can_generate_certificate(u, final_assessment_passed, survey_completed) ==
    /\ call' = [fn |-> "can_generate_certificate",
                args |-> [final_assessment_passed |-> final_assessment_passed,
                          survey_completed |-> survey_completed],
                result |-> can_generate_certificate(
                               u, final_assessment_passed, survey_completed)]
    /\ UNCHANGED <<now, ticks, db, session, response, open_page>>

Call_can_retake_final_assessment(current_attempts, last_attempt_time) ==
    /\ call' = [fn |-> "_can_retake_final_assessment",
                args |-> [current_attempts |-> current_attempts,
                          last_attempt_time |-> last_attempt_time],
                result |-> _can_retake_final_assessment(
                               current_attempts, last_attempt_time)]
    /\ UNCHANGED <<now, ticks, db, session, response, open_page>>

Call_can_retake_knowledge_check(module_number, u, current_attempts, last_attempt_time) ==
    /\ call' = [fn |-> "can_retake_knowledge_check",
                args |-> [module_number |-> module_number,
                          current_attempts |-> current_attempts,
                          last_attempt_time |-> last_attempt_time],
                result |-> can_retake_knowledge_check(
                               module_number, u, current_attempts,
                               last_attempt_time)]
    /\ UNCHANGED <<now, ticks, db, session, response, open_page>>

(***************************************************************************)
(* AssessmentService.                                                      *)
(***************************************************************************)
AssessmentTypes == {"baseline", "knowledge_check", "final_assessment", "follow_up"}

\* AssessmentResult.percentage_score >= passing_threshold
calculate_pass_status(correct_answers, total_questions, passing_threshold) ==
    ~PercentageBelow(correct_answers, total_questions, passing_threshold)

save_assessment_result(u, assessment_type, score, total_questions, correct_answers, m) ==
    /\ Len(assessment_result) < MaxAssessmentResults
    /\ assessment_type \in AssessmentTypes
    /\ assessment_result' =
           Append(assessment_result,
                  AssessmentResult(u, m, assessment_type, score,
                      total_questions, correct_answers,
                      calculate_pass_status(correct_answers,
                                            total_questions, 70)))
    /\ now' = now + 1
    /\ response' = NoResponse
    /\ UNCHANGED <<ticks, simulation_result, feedback_survey, user_progress,
                   session, call, open_page>>

(***************************************************************************)
(* The stated rules of the final assessment.                               *)
(***************************************************************************)
\* ModuleManagerService.get_final_assessment_rules
get_final_assessment_rules ==
    [question_count |-> FINAL_ASSESSMENT_QUESTION_COUNT,
     passing_threshold |-> FINAL_ASSESSMENT_PASSING_THRESHOLD,
     max_retakes |-> FINAL_ASSESSMENT_MAX_RETAKES,
     cooldown_hours |-> FINAL_ASSESSMENT_COOLDOWN_HOURS,
     retake_policy |-> "3 attempts every 48 hours",
     satisfaction_survey_required |-> TRUE]

\* FinalAssessmentContent.get_content: the rules among its entries.
FinalAssessmentContent_get_content ==
    [question_count |-> 25,
     passing_threshold |-> 80,
     max_retakes |-> 3,
     retake_cooldown_hours |-> 48]

Call_get_final_assessment_rules ==
    /\ call' = [fn |-> "get_final_assessment_rules",
                result |-> get_final_assessment_rules]
    /\ UNCHANGED <<now, ticks, db, session, response, open_page>>

Call_FinalAssessmentContent_get_content ==
    /\ call' = [fn |-> "FinalAssessmentContent.get_content",
                result |-> FinalAssessmentContent_get_content]
    /\ UNCHANGED <<now, ticks, db, session, response, open_page>>

(***************************************************************************)
(* Question samplers.                                                      *)
(***************************************************************************)
\* The questions the assessment page serves from a bank that is not empty:
\* the lists random.sample or random.shuffle may produce.
assessment_questions(all_questions, desired_count) ==
    IF Len(all_questions) > desired_count /\ desired_count > 0
    THEN random_sample(all_questions, desired_count)
    ELSE random_shuffle(all_questions)

\* KnowledgeCheckQuestion.get_random_by_module and
\* FinalAssessmentQuestion.get_random_questions, on the questions of the set.
get_random_by_module(questions, count) ==
    IF Len(questions) <= count
    THEN {questions}
    ELSE random_sample(questions, count)

Call_assessment_questions(all_questions, desired_count) ==
    /\ all_questions # <<>>
    /\ \E questions \in assessment_questions(all_questions, desired_count) :
         call' = [fn |-> "assessment",
                  args |-> [bank |-> all_questions, count |-> desired_count],
                  result |-> questions]
    /\ UNCHANGED <<now, ticks, db, session, response, open_page>>

Call_get_random_by_module(all_questions, count) ==
    /\ \E questions \in get_random_by_module(all_questions, count) :
         call' = [fn |-> "get_random_by_module",
                  args |-> [bank |-> all_questions, count |-> count],
                  result |-> questions]
    /\ UNCHANGED <<now, ticks, db, session, response, open_page>>

(***************************************************************************)
(* Question sets of the content classes and their rotation.                *)
(***************************************************************************)
\* KnowledgeCheckQuestion.question_set of the rows of the bank: the column
\* defaults to 1 and the seeding stores the first question set only.
question_set(q) == 1

\* module_questions_map: modules 2-5 and the final assessment (6) have a
\* questions class, Module1Questions is None.
HasQuestionsClass(module_number) == module_number \in 2..6

\* get_question_set_<i>() of a questions class: the questions of set i, 5
\* for a module and FinalSetSize for the final assessment.
get_question_set(module_number, i) ==
    [j \in 1..(IF module_number = 6 THEN FinalSetSize ELSE ModuleSetSize) |->
        [set |-> i, number |-> j]]

\* The selected index computed from the attempt after this one.
selected_set_index_next(attempt_number, question_sets) ==
    attempt_number % Len(question_sets)

\* (attempt_number - 1) % len(question_sets), an index from 0.
selected_set_index(attempt_number, question_sets) ==
    (attempt_number - 1) % Len(question_sets)

\* ModuleManagerService.get_knowledge_check_questions: the lists it may
\* return.
get_knowledge_check_questions(module_number, attempt_number) ==
    IF ~HasQuestionsClass(module_number) THEN {<<>>}
    ELSE LET question_sets ==
                 [i \in 1..QuestionSetMethods |->
                     get_question_set(module_number, i)]
             selected_questions ==
                 question_sets[selected_set_index(attempt_number,
                                                  question_sets) + 1]
             question_count == KNOWLEDGE_CHECK_QUESTION_COUNT
         IN  IF Len(selected_questions) > question_count
             THEN random_sample(selected_questions, question_count)
             ELSE {selected_questions}

\* ModuleManagerService.get_next_question_set
get_next_question_set(module_number, current_attempt) ==
    (current_attempt % 3) + 1

\* ModuleManagerService.get_question_randomization_info
get_question_randomization_info(module_number, attempt_number) ==
    IF module_number = 6
    THEN [module_type |-> "final_assessment",
          question_count |-> FINAL_ASSESSMENT_QUESTION_COUNT,
          question_sets_available |-> 3,
          current_set |-> ((attempt_number - 1) % 3) + 1]
    ELSE [module_type |-> "regular_module",
          question_count |-> KNOWLEDGE_CHECK_QUESTION_COUNT,
          question_sets_available |-> 3,
          current_set |-> ((attempt_number - 1) % 3) + 1]

Call_get_knowledge_check_questions(module_number, attempt_number) ==
    /\ \E questions \in
           get_knowledge_check_questions(module_number, attempt_number) :
         call' = [fn |-> "get_knowledge_check_questions",
                  args |-> [module_number |-> module_number,
                            attempt_number |-> attempt_number],
                  result |-> questions]
    /\ UNCHANGED <<now, ticks, db, session, response, open_page>>

Call_get_next_question_set(module_number, current_attempt) ==
    /\ call' = [fn |-> "get_next_question_set",
                args |-> [module_number |-> module_number,
                          current_attempt |-> current_attempt],
                result |-> get_next_question_set(module_number,
                                                 current_attempt)]
    /\ UNCHANGED <<now, ticks, db, session, response, open_page>>

Call_get_question_randomization_info(module_number, attempt_number) ==
    /\ call' = [fn |-> "get_question_randomization_info",
                args |-> [module_number |-> module_number,
                          attempt_number |-> attempt_number],
                result |-> get_question_randomization_info(module_number,
                                                           attempt_number)]
    /\ UNCHANGED <<now, ticks, db, session, response, open_page>>

(***************************************************************************)
(* Grading.                                                                *)
(***************************************************************************)
\* str.lower() on the strings of the model.
lower(s) == IF s = "A" THEN "a" ELSE IF s = "B" THEN "b" ELSE s

\* dict.get(key, default): a key that is absent maps to NoneStr in the model.
dict_get(d, key, default) == IF d[key] = NoneStr THEN default ELSE d[key]

\* QuestionBase.check_answer
check_answer(q, user_answer) == lower(user_answer) = lower(correct_answer(q))

\* (correct_answers / total_questions) * 100 if total_questions > 0 else 0,
\* a float, kept as the fraction num / den.
FloatPercentage(correct_answers, total_questions) ==
    IF total_questions > 0
    THEN [num |-> correct_answers * 100, den |-> total_questions]
    ELSE [num |-> 0, den |-> 1]

\* The loop of AssessmentService.grade_assessment.
RECURSIVE grade_assessment_loop(_, _)
grade_assessment_loop(questions, user_answers) ==
    IF questions = <<>> THEN 0
    ELSE LET question == Head(questions)
             user_answer == lower(dict_get(user_answers, question, ""))
         IN  (IF check_answer(question, user_answer) THEN 1 ELSE 0)
             + grade_assessment_loop(Tail(questions), user_answers)

\* AssessmentService.grade_assessment: score, total_questions, percentage.
grade_assessment(questions, user_answers) ==
    LET total_questions == Len(questions)
        correct_answers == grade_assessment_loop(questions, user_answers)
    IN  [score |-> correct_answers,
         total_questions |-> total_questions,
         percentage |-> FloatPercentage(correct_answers, total_questions)]

\* The loop of ModuleManagerService.grade_knowledge_check.
RECURSIVE grade_knowledge_check_loop(_, _)
grade_knowledge_check_loop(questions, user_answers) ==
    IF questions = <<>> THEN 0
    ELSE LET question == Head(questions)
             user_answer == lower(dict_get(user_answers, question, ""))
             is_correct == user_answer = lower(correct_answer(question))
         IN  (IF is_correct THEN 1 ELSE 0)
             + grade_knowledge_check_loop(Tail(questions), user_answers)

\* The result of grade_knowledge_check from the two counts: the float
\* percentage and passed = percentage >= KNOWLEDGE_CHECK_PASSING_THRESHOLD.
grade_knowledge_check_result(correct_answers, total_questions) ==
    LET percentage == FloatPercentage(correct_answers, total_questions)
    IN  [score |-> correct_answers,
         total_questions |-> total_questions,
         percentage |-> percentage,
         passed |-> percentage.num
                       >= KNOWLEDGE_CHECK_PASSING_THRESHOLD * percentage.den,
         passing_threshold |-> KNOWLEDGE_CHECK_PASSING_THRESHOLD]

\* ModuleManagerService.grade_knowledge_check
grade_knowledge_check(questions, user_answers) ==
    grade_knowledge_check_result(
        grade_knowledge_check_loop(questions, user_answers), Len(questions))

\* What the submit routes compute from the two counts: the truncated
\* percentage and passed = percentage >= the configured passing score.
route_result(correct_answers, total_questions, passing_score) ==
    LET percentage == IntPercentage(correct_answers, total_questions)
    IN  [score |-> correct_answers,
         total_questions |-> total_questions,
         percentage |-> [num |-> percentage, den |-> 1],
         passed |-> percentage >= passing_score]

\* The grading of the submit_assessment and submit_final_assessment routes:
\* the loop over the questions, the percentage and the pass flag.
route_grading(questions, form, passing_score) ==
    route_result(CountCorrect(questions, form), Len(questions), passing_score)

\* One grading of a question list against an answer map.
Call_grade_assessment(questions, user_answers) ==
    /\ call' = [fn |-> "grade_assessment",
                args |-> [questions |-> questions, answers |-> user_answers],
                result |-> grade_assessment(questions, user_answers)]
    /\ UNCHANGED <<now, ticks, db, session, response, open_page>>

Call_grade_knowledge_check(questions, user_answers) ==
    /\ call' = [fn |-> "grade_knowledge_check",
                args |-> [questions |-> questions, answers |-> user_answers],
                result |-> grade_knowledge_check(questions, user_answers)]
    /\ UNCHANGED <<now, ticks, db, session, response, open_page>>

Call_submit_assessment_grading(questions, form) ==
    /\ call' = [fn |-> "submit_assessment",
                args |-> [questions |-> questions, answers |-> form],
                result |-> route_grading(questions, form,
                                         KNOWLEDGE_CHECK_PASSING_SCORE)]
    /\ UNCHANGED <<now, ticks, db, session, response, open_page>>

\* One computation of the percentage and the pass flag from the two counts.
Call_percentage(fn, correct_answers, total_questions) ==
    /\ call' = [fn |-> fn,
                args |-> [correct_answers |-> correct_answers,
                          total_questions |-> total_questions],
                result |->
                    IF fn = "grade_knowledge_check.percentage"
                    THEN grade_knowledge_check_result(correct_answers,
                                                      total_questions)
                    ELSE IF fn = "submit_assessment.percentage"
                    THEN route_result(correct_answers, total_questions,
                                      KNOWLEDGE_CHECK_PASSING_SCORE)
                    ELSE route_result(correct_answers, total_questions,
                                      FINAL_ASSESSMENT_PASSING_SCORE)]
    /\ UNCHANGED <<now, ticks, db, session, response, open_page>>

Call_submit_final_assessment_grading(questions, form) ==
    /\ call' = [fn |-> "submit_final_assessment",
                args |-> [questions |-> questions, answers |-> form],
                result |-> route_grading(questions, form,
                                         FINAL_ASSESSMENT_PASSING_SCORE)]
    /\ UNCHANGED <<now, ticks, db, session, response, open_page>>

(***************************************************************************)
(* Simulation scoring.                                                     *)
(***************************************************************************)
\* is_correct of calculate_score without the option's correct flag.
is_correct_any_choice(option, user_answer) ==
    user_answer = lower(option.id)

\* is_correct = user_answer == option['id'].lower() and option['correct']
is_correct(option, user_answer) ==
    user_answer = lower(option.id) /\ option.correct

\* The for loop of BaseSimulation.calculate_score: the score.
RECURSIVE calculate_score_loop(_, _)
calculate_score_loop(options, user_answers) ==
    IF options = <<>> THEN 0
    ELSE LET option == Head(options)
             user_answer == lower(dict_get(user_answers, option.id, ""))
         IN  (IF is_correct(option, user_answer) THEN 1 ELSE 0)
             + calculate_score_loop(Tail(options), user_answers)

\* total_questions taken over the options flagged correct only.
total_questions_flagged(scenario) ==
    Cardinality({i \in DOMAIN scenario.options : scenario.options[i].correct})

\* total_questions = len(scenario.get('options', []))
total_questions_of(scenario) == Len(scenario.options)

\* BaseSimulation.calculate_score
calculate_score(scenario, user_answers) ==
    LET score == calculate_score_loop(scenario.options, user_answers)
        total_questions == total_questions_of(scenario)
        percentage == FloatPercentage(score, total_questions)
    IN  [score |-> score, total_questions |-> total_questions,
         percentage |-> percentage,
         passed |-> percentage.num
                       >= SIMULATION_PASSING_PERCENTAGE * percentage.den]

\* SimulationService.grade_simulation
grade_simulation(simulation_data, user_answers) ==
    IF simulation_data.type \in SimulationTypes
    THEN calculate_score(simulation_data, user_answers)
    ELSE [score |-> 0, total_questions |-> 0,
          percentage |-> [num |-> 0, den |-> 1], passed |-> FALSE]

Call_grade_simulation(simulation_data, user_answers) ==
    /\ call' = [fn |-> "grade_simulation",
                args |-> [scenario |-> simulation_data,
                          answers |-> user_answers],
                result |-> grade_simulation(simulation_data, user_answers)]
    /\ UNCHANGED <<now, ticks, db, session, response, open_page>>

(***************************************************************************)
(* Inputs of the requests.                                                 *)
(***************************************************************************)
KCForms(m) == [KCQuestionIds(m) -> AnswerChoices]

FinalForms == [Range(FinalAssessmentQuestion_all) -> AnswerChoices]

RatingInputs == {NoneInt, 0, 3, 6}

SimulationTypeInputs == {"phishing", "hacking"}

SimulationScoreInputs == {0}

\* The scores of successive attempts at one simulation.
SimulationAttemptScores == {0, 1}

NoCall == [fn |-> "none"]

\* Seconds between the last attempt and the call: around the 48 hours, and
\* one in the future.
ElapsedInputs ==
    {0 - SecondsPerHour, 0, 47 * SecondsPerHour,
     48 * SecondsPerHour - 1, 48 * SecondsPerHour, 48 * SecondsPerHour + 1,
     49 * SecondsPerHour, 50 * SecondsPerHour}

\* last_attempt_time: None, '', a string that is no ISO time, an ISO time.
LastAttemptTimeInputs ==
    {[kind |-> k, t |-> 0] : k \in {"none", "empty", "invalid"}}
    \cup {[kind |-> "iso", t |-> now - e] : e \in ElapsedInputs}

CurrentAttemptsInputs == 0..(FINAL_ASSESSMENT_MAX_RETAKES + 2)

\* (score, total_questions) of a stored attempt.
ScoreInputs == {<<0, 0>>, <<4, 5>>, <<79, 100>>, <<80, 100>>, <<9, 10>>}

AssessmentTypeInputs == {"knowledge_check", "final_assessment", "quiz"}

\* The questions of a graded list, and what an answer map may hold for each:
\* a letter in either case, a string that is no option, or no entry.
GradedQuestionIds == 1..MaxGradedQuestions

GradedQuestionLists ==
    UNION {InjSeqs(GradedQuestionIds, k) : k \in 0..MaxGradedQuestions}

GradingAnswers == AnswerChoices \cup {"B", "e"}

GradingAnswerMaps == [GradedQuestionIds -> GradingAnswers]

\* Banks of 0..MaxBankQuestions questions, in id order, and desired counts.
BankInputs == {[i \in 1..n |-> i] : n \in 0..MaxBankQuestions}

DesiredCountInputs == 0..MaxDesiredCount

\* module_number of the rotation functions: one without a questions class,
\* a module and the final assessment.
ModuleNumberInputs == {1, 2, 6}

AttemptNumberInputs == 1..MaxAttemptNumber

\* (correct_answers, total_questions) with 0 <= correct_answers <= total.
CountInputs ==
    {ct \in (0..MaxTotalQuestions) \X (0..MaxTotalQuestions) : ct[1] <= ct[2]}

PercentageCalls ==
    {"grade_knowledge_check.percentage", "submit_assessment.percentage",
     "submit_final_assessment.percentage"}

\* The options a learner may choose on a page of questions.
PageAnswers(questions) == [Range(questions) -> AnswerChoices]

\* What update_progress is posted: a module or none, a status, a score.
ProgressModuleInputs == Modules \cup {NoneInt}

ProgressStatusInputs == {"in_progress", "completed"}

\* The modules the progress requests are made for: the first two.
ServiceModuleInputs == {m \in Modules : m <= 2}

ProgressScoreInputs == {100}

\* Scenarios of 0..MaxOptions options with ids a, b, c, ... in that order and
\* any correct flags, of a known simulation type and of an unknown one.
OptionIds == SubSeq(<<"a", "b", "c", "d", "e", "f">>, 1, MaxOptions)

ScenarioInputs ==
    {[type |-> t,
      options |-> [i \in 1..n |-> [id |-> OptionIds[i], correct |-> i \in cs]]] :
        t \in SimulationTypeInputs, n \in 0..MaxOptions,
        cs \in SUBSET (1..MaxOptions)}

\* For each option id: nothing submitted, the id itself, or the letter B.
SimulationAnswerMaps ==
    {f \in [Range(OptionIds) -> Range(OptionIds) \cup {NoneStr, "B"}] :
        \A k \in Range(OptionIds) : f[k] \in {NoneStr, k, "B"}}

(***************************************************************************)
(* The learner flow.                                                       *)
(***************************************************************************)
Init ==
    /\ now = 0
    /\ ticks = 0
    /\ assessment_result = <<>>
    /\ simulation_result = <<>>
    /\ feedback_survey = <<>>
    /\ user_progress = [u \in Learners |-> [m \in Modules |-> NoProgress]]
    /\ session = [u \in Learners |-> [m \in Modules |-> <<>>]]
    /\ response = NoResponse
    /\ call = NoCall
    /\ open_page = NoPage

\* The learning routes: pages, knowledge checks and simulations.
KnowledgeCheckRequests ==
    \/ \E u \in Learners, m \in ModuleIds : assessment(u, m)
    \/ \E u \in Learners, m \in ModuleIds, save_ok \in BOOLEAN :
         /\ Len(assessment_result) < MaxAssessmentResults
         /\ \E form \in KCForms(m) : submit_assessment(u, m, form, save_ok)
    \/ \E u \in Learners, t \in SimulationTypeInputs,
          score \in SimulationScoreInputs, m \in Modules \cup {NoneInt} :
         save_simulation_result(u, t, score, m)

Next ==
    \/ \E u \in Learners : dashboard(u)
    \/ \E u \in Learners, m \in ModuleIds : module(u, m)
    \/ KnowledgeCheckRequests

Spec == Init /\ [][Next]_vars

\* The final assessment, the survey and the certificate.
FinalAssessmentRequests(cap) ==
    \/ \E u \in Learners : final_assessment(u)
    \/ \E u \in Learners : final_assessment_questions(u)
    \/ \E u \in Learners, form \in FinalForms, save_ok \in BOOLEAN :
         /\ Len(assessment_result) < cap
         /\ submit_final_assessment(u, form, save_ok)

CertificateRequests ==
    \/ \E u \in Learners : survey(u)
    \/ \E u \in Learners, rating \in RatingInputs, save_ok \in BOOLEAN :
         submit_survey(u, rating, "", save_ok)
    \/ \E u \in Learners : certificate(u)
    \/ \E u \in Learners, rating \in RatingInputs : FeedbackSurvey_save(u, rating)

\* Every learner request that writes a row, in any order, without the clock.
NextCertificate ==
    \/ \E u \in Learners, m \in ModuleIds, save_ok \in BOOLEAN :
         /\ Len(assessment_result) < MaxAssessmentResults
         /\ \E form \in KCForms(m) : submit_assessment(u, m, form, save_ok)
    \/ \E u \in Learners, t \in SimulationTypeInputs,
          score \in SimulationScoreInputs, m \in Modules \cup {NoneInt} :
         save_simulation_result(u, t, score, m)
    \/ FinalAssessmentRequests(MaxAssessmentResults)
    \/ CertificateRequests

SpecCertificate == Init /\ [][NextCertificate]_vars

\* The final assessment over time: attempts, the clock, survey, certificate.
NextFinal ==
    \/ FinalAssessmentRequests(MaxFinalAttempts)
    \/ CertificateRequests
    \/ \E d \in TickSteps : Tick(d)

SpecFinal == Init /\ [][NextFinal]_vars

\* The policy functions, evaluated on bounded inputs.
NextPolicy ==
    \/ \E u \in Learners, final_assessment_passed \in BOOLEAN,
          survey_completed \in BOOLEAN :
         Call_can_generate_certificate(u, final_assessment_passed,
                                       survey_completed)
    \/ \E current_attempts \in CurrentAttemptsInputs,
          last_attempt_time \in LastAttemptTimeInputs :
         Call_can_retake_final_assessment(current_attempts, last_attempt_time)
    \/ \E module_number \in {1, 6}, u \in Learners,
          current_attempts \in CurrentAttemptsInputs
                                  \cup {MAX_ATTEMPTS_PER_MODULE},
          last_attempt_time \in LastAttemptTimeInputs :
         Call_can_retake_knowledge_check(module_number, u, current_attempts,
                                         last_attempt_time)

SpecPolicy == Init /\ [][NextPolicy]_vars

\* The completion validator over stored attempts of every score.
NextCompletion ==
    \/ \E u \in Learners, type \in AssessmentTypeInputs, st \in ScoreInputs,
          m \in Modules :
         save_assessment_result(u, type, st[1], st[2], st[1], m)
    \/ \E u \in Learners, t \in SimulationTypeInputs,
          score \in SimulationScoreInputs, m \in Modules \cup {NoneInt} :
         save_simulation_result(u, t, score, m)

SpecCompletion == Init /\ [][NextCompletion]_vars

\* The graders, each applied once to a bounded question list and answer map.
NextGrading ==
    /\ call = NoCall
    /\ \/ \E questions \in GradedQuestionLists, answers \in GradingAnswerMaps :
            \/ Call_grade_assessment(questions, answers)
            \/ Call_grade_knowledge_check(questions, answers)
            \/ Call_submit_assessment_grading(questions, answers)
            \/ Call_submit_final_assessment_grading(questions, answers)
       \/ \E fn \in PercentageCalls, ct \in CountInputs :
            Call_percentage(fn, ct[1], ct[2])

SpecGrading == Init /\ [][NextGrading]_vars

\* The samplers, each applied once to a bank and a desired count.
NextSampler ==
    /\ call = NoCall
    /\ \E bank \in BankInputs, count \in DesiredCountInputs :
         \/ Call_assessment_questions(bank, count)
         \/ Call_get_random_by_module(bank, count)

SpecSampler == Init /\ [][NextSampler]_vars

\* The rotation functions, each applied once before any request, and the
\* knowledge check of the first module as the learner takes it.
NextRotation ==
    /\ call = NoCall
    /\ \/ /\ response = NoResponse
          /\ \E module_number \in ModuleNumberInputs,
                attempt_number \in AttemptNumberInputs :
               \/ Call_get_knowledge_check_questions(module_number,
                                                     attempt_number)
               \/ Call_get_next_question_set(module_number,
                                             attempt_number - 1)
               \/ Call_get_question_randomization_info(module_number,
                                                       attempt_number)
       \/ \E u \in Learners : assessment(u, 1)
       \/ \E u \in Learners, save_ok \in BOOLEAN :
            /\ Len(assessment_result) < MaxAssessmentResults
            /\ \E form \in KCForms(1) : submit_assessment(u, 1, form, save_ok)

SpecRotation == Init /\ [][NextRotation]_vars

\* Knowledge-check and final-assessment submissions, and the stated rules.
NextThreshold ==
    \/ \E u \in Learners, m \in ModuleIds, save_ok \in BOOLEAN :
         /\ Len(assessment_result) < MaxAssessmentResults
         /\ \E form \in KCForms(m) : submit_assessment(u, m, form, save_ok)
    \/ FinalAssessmentRequests(MaxAssessmentResults)
    \/ Call_get_final_assessment_rules
    \/ Call_FinalAssessmentContent_get_content

SpecThreshold == Init /\ [][NextThreshold]_vars

\* Knowledge-check pages of the first module under a deployment that serves
\* ServedCount questions a page: pages are served, kept in a tab and posted,
\* in any order and any number of times.
NextPinning ==
    \/ \E u \in Learners : assessment_page(u, 1, ServedCount)
    \/ \E u \in Learners : \E answers \in PageAnswers(session[u][1]) :
         fill_assessment_page(u, 1, answers)
    \/ \E u \in Learners, save_ok \in BOOLEAN :
         /\ Len(assessment_result) < MaxAssessmentResults
         /\ submit_assessment_page(u, save_ok)

SpecPinning == Init /\ [][NextPinning]_vars

\* Every gate that answers with a boolean and a reason: the three policy
\* functions on their inputs, and the eligibility check on the progress
\* marks the learning routes leave; a run ends with one gate evaluation.
NextGate ==
    /\ call = NoCall
    /\ \/ /\ response = NoResponse
          /\ NextPolicy
       \/ \E u \in Learners, m \in ModuleIds : module(u, m)
       \/ \E u \in Learners, m \in ModuleIds, save_ok \in BOOLEAN :
            /\ Len(assessment_result) < MaxAssessmentResults
            /\ \E form \in KCForms(m) :
                 submit_assessment(u, m, form, save_ok)
       \/ \E u \in Learners, m \in ModuleIds, query_ok \in BOOLEAN :
            Call_check_module_eligibility(u, m, query_ok)

SpecGate == Init /\ [][NextGate]_vars

\* Every learner request that reads or writes attempt records or progress
\* marks, in any order.
NextHistory ==
    \/ \E u \in Learners, m \in ModuleIds : module(u, m)
    \/ \E u \in Learners, m \in ModuleIds, save_ok \in BOOLEAN :
         /\ Len(assessment_result) < MaxHistoryRecords
         /\ \E form \in KCForms(m) : submit_assessment(u, m, form, save_ok)
    \/ \E u \in Learners, form \in FinalForms, save_ok \in BOOLEAN :
         /\ Len(assessment_result) < MaxHistoryRecords
         /\ submit_final_assessment(u, form, save_ok)
    \/ \E u \in Learners, m \in ProgressModuleInputs,
          status \in ProgressStatusInputs, score \in ProgressScoreInputs,
          save_ok \in BOOLEAN :
         update_progress(u, m, status, score, save_ok)
    \/ \E u \in Learners : survey(u)
    \/ \E u \in Learners, rating \in RatingInputs, save_ok \in BOOLEAN :
         submit_survey(u, rating, "", save_ok)
    \/ \E u \in Learners : certificate(u)

SpecHistory == Init /\ [][NextHistory]_vars

\* Everything that writes a progress mark: the module page, the
\* knowledge-check submission, update_progress and the module service.
NextProgress ==
    \/ \E u \in Learners, m \in ServiceModuleInputs : module(u, m)
    \/ \E u \in Learners, m \in ServiceModuleInputs, save_ok \in BOOLEAN :
         /\ Len(assessment_result) < MaxHistoryRecords
         /\ \E form \in KCForms(m) : submit_assessment(u, m, form, save_ok)
    \/ \E u \in Learners, m \in ServiceModuleInputs \cup {NoneInt},
          status \in ProgressStatusInputs, score \in ProgressScoreInputs,
          save_ok \in BOOLEAN :
         update_progress(u, m, status, score, save_ok)
    \/ \E u \in Learners, m \in ServiceModuleInputs, save_ok \in BOOLEAN :
         start_module(u, m, save_ok)
    \/ \E u \in Learners, m \in ServiceModuleInputs,
          score \in ProgressScoreInputs, save_ok \in BOOLEAN :
         complete_module(u, m, score, save_ok)

SpecProgress == Init /\ [][NextProgress]_vars

\* One grading of a simulation scenario.
NextSimulation ==
    /\ call = NoCall
    /\ \E simulation_data \in ScenarioInputs,
          user_answers \in SimulationAnswerMaps :
         Call_grade_simulation(simulation_data, user_answers)

SpecSimulation == Init /\ [][NextSimulation]_vars

\* Simulation attempts: results saved by the service, any number of times
\* for the same learner, module and type, and simulations submitted through
\* the route.
NextSimulationRecords ==
    \/ \E u \in Learners, t \in SimulationTypeInputs,
          score \in SimulationAttemptScores, m \in Modules \cup {NoneInt} :
         /\ Len(simulation_result) < MaxSimulationAttempts
         /\ SimulationService_save_simulation_result(u, t, score, m)
    \/ \E u \in Learners, t \in SimulationTypeInputs :
         submit_simulation(u, t)

SpecSimulationRecords == Init /\ [][NextSimulationRecords]_vars

(***************************************************************************)
(* Properties.                                                             *)
(***************************************************************************)
CooldownSeconds == 48 * 3600

\* C1: can_generate_certificate allows exactly when the final assessment is
\* passed and the survey is completed; without a passed final assessment it
\* denies with the reason "Final assessment not passed" whatever the survey
\* flag is; with a passed final assessment and no survey it denies with
\* missing_requirement = "survey".
C1_CertificateGate ==
    call.fn = "can_generate_certificate" =>
        LET final_passed == call.args.final_assessment_passed
            survey_done == call.args.survey_completed
            r == call.result
        IN  /\ r.can_generate <=> (final_passed /\ survey_done)
            /\ ~final_passed =>
                   /\ ~r.can_generate
                   /\ r.reason = "Final assessment not passed"
            /\ (final_passed /\ ~survey_done) =>
                   /\ ~r.can_generate
                   /\ "missing_requirement" \in DOMAIN r
                   /\ r.missing_requirement = "survey"

C1_Witness ==
    /\ call.fn = "can_generate_certificate"
    /\ call.args.final_assessment_passed
    /\ call.args.survey_completed
    /\ call.result.can_generate

\* The learner has a final_assessment attempt record with passed = true.
FinalPassedRecordExists(u) ==
    \E r \in Range(assessment_result) :
        r.user_id = u /\ r.assessment_type = "final_assessment" /\ r.passed

\* The learner has a survey row.
SurveyRowExists(u) == \E r \in Range(feedback_survey) : r.user_id = u

\* C2: whatever requests came before, a certificate request is answered with
\* the certificate page exactly when the learner has a passed final
\* assessment record and a survey row; otherwise it is denied (redirected).
C2_CertificateOnlyWhenEligible ==
    response.route = "certificate" =>
        /\ response.kind \in {"render", "redirect"}
        /\ (response.kind = "render" /\ response.target = "certificate.html")
               <=> (/\ FinalPassedRecordExists(response.user_id)
                    /\ SurveyRowExists(response.user_id))

C2_Witness ==
    /\ response.route = "certificate"
    /\ response.kind = "render"
    /\ Len(assessment_result) > 1

\* Position i of the order-sorted module list is open to the learner.
PositionAccessible(u, i) ==
    i = 1 \/ is_module_fully_completed(u, Module_get_all_ordered[i - 1])

PositionOf(m) ==
    CHOOSE i \in DOMAIN Module_get_all_ordered : Module_get_all_ordered[i] = m

\* C3: the first module is always accessible and the module at position
\* i > 1 is accessible exactly when the module at position i - 1 is fully
\* completed; the dashboard's accessible_modules and the gates of the module
\* page and of the assessment page all give that answer.
C3_ProgressionGate ==
    /\ response.route = "dashboard" =>
           /\ Len(response.accessible_modules) = NumModules
           /\ \A i \in 1..NumModules :
                  response.accessible_modules[i]
                      <=> PositionAccessible(response.user_id, i)
    /\ (/\ response.route \in {"module", "assessment"}
        /\ ModuleExists(response.module_id)) =>
           ((response.kind = "redirect" /\ response.target = "dashboard")
               <=> ~PositionAccessible(response.user_id,
                                       PositionOf(response.module_id)))

C3_Witness ==
    /\ response.route = "dashboard"
    /\ response.accessible_modules[2]
    /\ ~response.accessible_modules[NumModules]

\* C4: a knowledge-check submission for a module k > 1 whose previous module
\* is not fully completed creates no attempt record and changes no progress
\* mark.
C4_LockedSubmissionCreatesNothing ==
    [][\A u \in Learners, m \in Modules :
          (m > 1 /\ ~is_module_fully_completed(u, m - 1)) =>
              /\ KnowledgeCheckResults(u, m)' = KnowledgeCheckResults(u, m)
              /\ user_progress'[u][m] = user_progress[u][m]]_vars

\* The newest knowledge-check record of (u, m), by insertion.
NewestKnowledgeCheck(u, m) ==
    KnowledgeCheckResults(u, m)[Len(KnowledgeCheckResults(u, m))]

\* correct / total * 100 >= 80, a total of 0 counting as 0%.
AtLeast80Percent(r) ==
    r.total_questions > 0 /\ r.correct_answers * 100 >= 80 * r.total_questions

CompletedSimulationExists(u, m) ==
    \E r \in Range(simulation_result) :
        r.user_id = u /\ r.module_id = m /\ r.completed

\* C5: is_module_fully_completed is true exactly when the most recent
\* knowledge-check record of (learner, module) exists and is at 80% or more
\* and, if the module has a simulation, a completed simulation record
\* exists; so 80% without a required simulation is true, 79% is false, and
\* 90% with a required but missing simulation is false.
C5_ModuleFullyCompleted ==
    \A u \in Learners, m \in Modules :
        /\ is_module_fully_completed(u, m) <=>
               /\ KnowledgeCheckResults(u, m) # <<>>
               /\ AtLeast80Percent(NewestKnowledgeCheck(u, m))
               /\ has_simulation(m) => CompletedSimulationExists(u, m)
        /\ KnowledgeCheckResults(u, m) # <<>> =>
               LET r == NewestKnowledgeCheck(u, m) IN
               /\ (r.score = 80 /\ r.total_questions = 100
                     /\ ~has_simulation(m))
                      => is_module_fully_completed(u, m)
               /\ (r.score = 79 /\ r.total_questions = 100)
                      => ~is_module_fully_completed(u, m)
               /\ (r.score = 9 /\ r.total_questions = 10 /\ has_simulation(m)
                     /\ ~CompletedSimulationExists(u, m))
                      => ~is_module_fully_completed(u, m)

C5_Witness ==
    \E u \in Learners, m \in Modules :
        /\ has_simulation(m)
        /\ Len(KnowledgeCheckResults(u, m)) > 1
        /\ NewestKnowledgeCheck(u, m).score = 9
        /\ NewestKnowledgeCheck(u, m).total_questions = 10
        /\ ~CompletedSimulationExists(u, m)
        /\ ~is_module_fully_completed(u, m)

\* C6: a final_assessment attempt record is created only by a submission
\* made when every module is fully completed and the learner has no passed
\* final assessment yet.
C6_FinalRecordOnlyWhenEligible ==
    [][\A u \in Learners :
          Len(FinalResults(u)') > Len(FinalResults(u)) =>
              /\ get_user_completed_modules(u) = Modules
              /\ ~HasPassedFinal(u)]_vars

\* C7: below 3 attempts a retake is allowed with 3 - n attempts remaining
\* whatever the timestamp; from 3 attempts on, with a timestamp, it is
\* allowed exactly when at least 48 hours have passed (48 hours exactly
\* included), then with 3 attempts remaining and cooldown_reset, and
\* otherwise denied with cooldown_remaining_hours = 48 - elapsed hours.
C7_RetakeDecision ==
    call.fn = "_can_retake_final_assessment" =>
        LET n == call.args.current_attempts
            last == call.args.last_attempt_time
            r == call.result
            elapsed == now - last.t
        IN  /\ n < 3 => (r.can_retake /\ r.attempts_remaining = 3 - n)
            /\ (n >= 3 /\ last.kind = "iso") =>
                   /\ r.can_retake <=> elapsed >= CooldownSeconds
                   /\ r.can_retake =>
                          /\ r.attempts_remaining = 3
                          /\ "cooldown_reset" \in DOMAIN r
                          /\ r.cooldown_reset
                   /\ ~r.can_retake =>
                          /\ "cooldown_remaining_hours" \in DOMAIN r
                          /\ r.cooldown_remaining_hours.num * 3600 =
                                 (CooldownSeconds - elapsed)
                                     * r.cooldown_remaining_hours.den

C7_Witness ==
    /\ call.fn = "_can_retake_final_assessment"
    /\ call.args.current_attempts = 3
    /\ call.args.last_attempt_time.kind = "iso"
    /\ now - call.args.last_attempt_time.t = CooldownSeconds
    /\ call.result.can_retake

\* C8: from 3 attempts on, without a timestamp or with one that cannot be
\* parsed, the decision is can_retake = false with 0 attempts remaining; the
\* function returns a decision for every input.
C8_FailClosed ==
    call.fn = "_can_retake_final_assessment" =>
        LET n == call.args.current_attempts
            last == call.args.last_attempt_time
            r == call.result
        IN  /\ {"can_retake", "reason", "attempts_remaining"}
                   \subseteq DOMAIN r
            /\ (n >= 3 /\ last.kind \in {"none", "empty", "invalid"}) =>
                   (~r.can_retake /\ r.attempts_remaining = 0)

C8_Witness ==
    /\ call.fn = "_can_retake_final_assessment"
    /\ call.args.current_attempts > 3
    /\ call.args.last_attempt_time.kind = "invalid"
    /\ ~call.result.can_retake

\* C9: once a learner has 3 final_assessment attempt records, a submission
\* made less than 48 hours after the latest of them creates no new record.
C9_NoFourthAttemptInCooldown ==
    [][\A u \in Learners :
          LET rows == FinalResults(u) IN
          (/\ Len(rows) >= 3
           /\ now - rows[Len(rows)].created_at < CooldownSeconds)
              => FinalResults(u)' = rows]_vars

\* created_at.isoformat() of a stored attempt, as last_attempt_time.
isoformat(t) == [kind |-> "iso", t |-> t]

\* C10: with the number of final_assessment records as current_attempts and
\* the time of the newest as last_attempt_time, after 3 failed attempts and
\* a wait of at least 48 hours the policy permits the 4th, 5th and 6th
\* attempt before a cooldown applies again.
C10_ThreeAttemptsAfterReset ==
    \A u \in Learners :
        LET rows == FinalResults(u)
            n == Len(rows)
        IN  (/\ n \in 3..5
             /\ \A i \in 1..n : ~rows[i].passed
             /\ n = 3 => now - rows[3].created_at >= CooldownSeconds
             /\ n > 3 => rows[4].created_at - rows[3].created_at
                             >= CooldownSeconds)
                => _can_retake_final_assessment(
                       n, isoformat(rows[n].created_at)).can_retake

GradingCalls ==
    {"grade_assessment", "grade_knowledge_check", "submit_assessment",
     "submit_final_assessment"}

\* The upper-case spelling of an option letter.
UpperCase(letter) == IF letter = "a" THEN "A" ELSE "B"

\* The questions of the list whose submitted answer is the correct option,
\* in either case.
CorrectlyAnswered(questions, answers) ==
    {i \in DOMAIN questions :
        answers[questions[i]] \in {correct_answer(questions[i]),
                                   UpperCase(correct_answer(questions[i]))}}

\* C11: every grader (grade_assessment, grade_knowledge_check and the grading
\* of the two submit routes) returns as correct count the number of questions
\* whose submitted answer is the correct option compared case-insensitively;
\* a missing answer or an answer that is no option counts as incorrect and
\* the other questions are still counted.
C11_GradingCorrectness ==
    call.fn \in GradingCalls =>
        /\ call.result.total_questions = Len(call.args.questions)
        /\ call.result.score =
               Cardinality(CorrectlyAnswered(call.args.questions,
                                             call.args.answers))

Abs(x) == IF x < 0 THEN 0 - x ELSE x

\* p = round(100 * correct / total): p is a whole number and no whole number
\* is nearer to 100 * correct / total (either neighbour on a tie).
IsRoundedPercentage(p, correct, total) ==
    \E n \in 0..100 :
        /\ p.num = n * p.den
        /\ 2 * Abs(100 * correct - n * total) <= total

PassingScoreOf(fn) ==
    IF fn = "submit_final_assessment.percentage" THEN 70 ELSE 80

\* C12: for 0 <= correct <= total the reported percentage is
\* round(100 * correct / total) when total > 0 and 0 when total = 0, where
\* the grading also reports pass = false; and pass = (percentage >=
\* threshold), so with threshold 80, 4 of 5 is 80 and passes and 3 of 5 is 60
\* and fails.
C12_PercentageRounded ==
    call.fn \in PercentageCalls =>
        LET correct == call.args.correct_answers
            total == call.args.total_questions
            r == call.result
        IN  /\ total > 0 => IsRoundedPercentage(r.percentage, correct, total)
            /\ total = 0 => (r.percentage.num = 0 /\ ~r.passed)
            /\ r.passed <=>
                   r.percentage.num >= PassingScoreOf(call.fn) * r.percentage.den
            /\ (correct = 4 /\ total = 5 /\ PassingScoreOf(call.fn) = 80) =>
                   (r.percentage.num = 80 * r.percentage.den /\ r.passed)
            /\ (correct = 3 /\ total = 5 /\ PassingScoreOf(call.fn) = 80) =>
                   (r.percentage.num = 60 * r.percentage.den /\ ~r.passed)

\* The attempt was recorded as passed exactly at or above the threshold.
PassedFrom(r, threshold) ==
    r.passed <=>
        (r.total_questions > 0
           /\ 100 * r.correct_answers >= threshold * r.total_questions)

\* C13: knowledge checks pass from 80% and the final assessment from 70%: a
\* final_assessment attempt is recorded with passed = true exactly when its
\* percentage is at least 70, and the final-assessment threshold stated by
\* get_final_assessment_rules and by FinalAssessmentContent is 70 as well.
C13_FinalThresholdIs70 ==
    /\ \A i \in DOMAIN assessment_result :
           LET r == assessment_result[i] IN
           /\ r.assessment_type = "knowledge_check" => PassedFrom(r, 80)
           /\ r.assessment_type = "final_assessment" => PassedFrom(r, 70)
    /\ call.fn = "get_final_assessment_rules" =>
           call.result.passing_threshold = 70
    /\ call.fn = "FinalAssessmentContent.get_content" =>
           call.result.passing_threshold = 70

Min(a, b) == IF a <= b THEN a ELSE b

\* C14: for every bank and desired count k >= 0 the sampler returns exactly
\* min(len(bank), k) questions, all distinct and all from the bank; so a
\* bank of no more than k questions is returned whole, each question once.
C14_SamplerBound ==
    call.fn \in {"assessment", "get_random_by_module"} =>
        LET bank == call.args.bank
            k == call.args.count
            served == call.result
        IN  /\ Len(served) = Min(Len(bank), k)
            /\ \A i, j \in DOMAIN served : i # j => served[i] # served[j]
            /\ Range(served) \subseteq Range(bank)
            /\ Len(bank) <= k => Range(served) = Range(bank)

\* The set that serves attempt n of a bank of k labelled sets.
SetOfAttempt(n, k) == ((n - 1) % k) + 1

\* The number of labelled sets of the bank rows of a module.
BankSets(m) == Cardinality({question_set(q) : q \in KCQuestionIds(m)})

CorrectOn(questions, form) ==
    Cardinality({i \in DOMAIN questions :
                    form[questions[i]] = correct_answer(questions[i])})

\* The step is a knowledge-check submission of the open page that stored
\* its attempt record.
PageGraded ==
    /\ Len(assessment_result') = Len(assessment_result) + 1
    /\ response'.route = "submit_assessment"
    /\ response'.kind = "render"
    /\ response'.user_id = open_page.user_id
    /\ response'.module_id = open_page.module_id

\* The attempt record the step stored.
NewRecord == assessment_result'[Len(assessment_result')]

C17_GradedAgainstServedAttempt ==
    [][(PageGraded /\ Len(assessment_result) = open_page.results_before) =>
        /\ GradedQuestions(open_page.user_id, open_page.module_id)
               = open_page.questions
        /\ NewRecord.total_questions = Len(open_page.questions)
        /\ NewRecord.correct_answers =
               CorrectOn(open_page.questions, PageForm(open_page))]_vars

\* C18: posting the same answers of one served page twice stores two
\* attempt records with the same total, correct count and pass flag.
C18_PinningIdempotence ==
    [][(PageGraded /\ Len(assessment_result) > open_page.results_before) =>
        LET first == assessment_result[Len(assessment_result)]
        IN  /\ NewRecord.total_questions = first.total_questions
            /\ NewRecord.correct_answers = first.correct_answers
            /\ NewRecord.passed = first.passed]_vars

\* The gate results: what each gate function calls its boolean.
GateBoolean ==
    [can_retake_knowledge_check |-> "can_retake",
     _can_retake_final_assessment |-> "can_retake",
     can_generate_certificate |-> "can_generate",
     check_module_eligibility |-> "eligible"]

\* C19: every gate result that denies (can_retake, can_generate or eligible
\* is false) carries a reason field that is not the empty string.
C19_DenialCarriesReason ==
    call.fn \in DOMAIN GateBoolean =>
        (call.result[GateBoolean[call.fn]] = FALSE =>
            /\ "reason" \in DOMAIN call.result
            /\ call.result.reason # "")

\* The eligibility check denied a module whose prerequisite is not completed.
C19_Witness ==
    /\ call.fn = "check_module_eligibility"
    /\ call.args.module_id = 2
    /\ call.result.eligible = FALSE
    /\ call.result.reason = "Must complete Module 1 first"
    /\ user_progress[call.args.user_id][1].status = "not_started"

\* The step is answered by a submission route.
SubmissionAnswered ==
    /\ response'.route \in {"submit_assessment", "submit_final_assessment"}
    /\ \/ response' # response
       \/ assessment_result' # assessment_result

\* C20: stored attempt records are never changed or removed; a submission
\* that is answered with its result page has stored exactly one new record,
\* no other request stores one, and a submission whose save failed (answered
\* with a redirect) leaves the records and the progress marks as they were.
C20_AttemptHistoryAppendOnly ==
    [][/\ Len(assessment_result') >= Len(assessment_result)
       /\ \A i \in DOMAIN assessment_result :
              assessment_result'[i] = assessment_result[i]
       /\ IF SubmissionAnswered /\ response'.kind = "render"
          THEN /\ Len(assessment_result') = Len(assessment_result) + 1
               /\ assessment_result'[Len(assessment_result')].user_id
                      = response'.user_id
          ELSE assessment_result' = assessment_result
       /\ (SubmissionAnswered /\ response'.kind = "redirect") =>
              user_progress' = user_progress]_vars

\* update_progress rewrote a progress mark while a knowledge-check record
\* and a final-assessment record were stored.
C20_Witness ==
    /\ Len(assessment_result) = 2
    /\ assessment_result[1].assessment_type = "knowledge_check"
    /\ assessment_result[2].assessment_type = "final_assessment"
    /\ response.route = "update_progress"
    /\ response.target = "success"
    /\ user_progress[response.user_id][response.module_id].status
          = "in_progress"

\* C21: a progress mark with status completed implies that the module is
\* fully completed by the attempt history (latest knowledge check at 80% or
\* more and, where required, a completed simulation).
C21_CompletedMarkFollowsHistory ==
    \A u \in Learners, m \in Modules :
        user_progress[u][m].status = "completed" =>
            is_module_fully_completed(u, m)

\* The step is a module entry: the module page was rendered, or
\* start_module was called.
ModuleEntered(u, m) ==
    \/ /\ response' # response
       /\ response' = Render(u, "module", m, "module.html")
    \/ /\ call' # call
       /\ call'.fn = "start_module"
       /\ call'.args = [user_id |-> u, module_id |-> m]

\* C22: entering a module creates the progress mark in state not_started
\* when the learner has none for it and leaves an existing mark unchanged,
\* through the module page and through start_module.
C22_ModuleEntryIdempotent ==
    [][\A u \in Learners, m \in Modules :
          ModuleEntered(u, m) =>
              user_progress'[u][m] =
                  IF user_progress[u][m] = NoProgress
                  THEN UserProgress("not_started")
                  ELSE user_progress[u][m]]_vars

\* The options of a scenario that count for an answer map when the
\* submitted choice must be the option id letter for letter.
CountingExactly(scenario, answers) ==
    {i \in DOMAIN scenario.options :
        /\ answers[scenario.options[i].id] = scenario.options[i].id
        /\ scenario.options[i].correct}

\* The same when the choice is compared with the id without regard to case.
CountingIgnoringCase(scenario, answers) ==
    {i \in DOMAIN scenario.options :
        /\ lower(answers[scenario.options[i].id]) = scenario.options[i].id
        /\ scenario.options[i].correct}

\* The result of a grading whose counting options are the given set.
IsSimulationResult(result, scenario, counting) ==
    IF scenario.type \in SimulationTypes
    THEN LET n == Len(scenario.options)
         IN  /\ result.score = Cardinality(counting)
             /\ result.total_questions = n
             /\ IF n = 0 THEN result.percentage.num = 0
                ELSE result.percentage.num * n
                        = result.score * 100 * result.percentage.den
             /\ result.passed = (n > 0 /\ result.score * 100 >= 70 * n)
    ELSE /\ result.score = 0
         /\ result.passed = FALSE

\* C23 as stated: an option counts only when the submitted choice equals the
\* option id and the option is flagged correct; the score is the number of
\* such options, the percentage is score / options * 100 (0 without
\* options), passed is percentage >= 70, and an unknown simulation type
\* yields the zero result.
C23_SimulationScoring ==
    call.fn = "grade_simulation" =>
        IsSimulationResult(call.result, call.args.scenario,
            CountingExactly(call.args.scenario, call.args.answers))

\* C23 amended: the same with the submitted choice compared with the option
\* id case-insensitively.
C23_SimulationScoringIgnoringCase ==
    call.fn = "grade_simulation" =>
        IsSimulationResult(call.result, call.args.scenario,
            CountingIgnoringCase(call.args.scenario, call.args.answers))

\* A scenario of four options, three flagged correct and chosen, one of them
\* in upper case, one unflagged option chosen too: 3 of 4, passed.
C23_Witness ==
    /\ call.fn = "grade_simulation"
    /\ call.args.scenario.type = "phishing"
    /\ Len(call.args.scenario.options) = MaxOptions
    /\ call.args.answers["b"] = "B"
    /\ call.args.answers["a"] = "a"
    /\ ~call.args.scenario.options[1].correct
    /\ call.result.score = MaxOptions - 1
    /\ call.result.passed

\* The number of options of a scenario flagged correct.
FlaggedCorrect(scenario) ==
    Cardinality({i \in DOMAIN scenario.options : scenario.options[i].correct})

\* The answer map submits everything the other one does, and choices for
\* options not flagged correct besides.
AddsIncorrectChoices(more, answers, scenario) ==
    \A i \in DOMAIN OptionIds :
        more[OptionIds[i]] # answers[OptionIds[i]] =>
            /\ answers[OptionIds[i]] = NoneStr
            /\ i \in DOMAIN scenario.options => ~scenario.options[i].correct

\* C30: for a scenario with c options flagged correct out of n, the score is
\* at most c and the percentage, taken over all n options, at most 100*c/n;
\* submitting further incorrect options never lowers the score; and passed
\* is false for every answer map when c/n < 0.7.
C30_ScoreBoundedByFlagged ==
    call.fn = "grade_simulation" =>
        LET scenario == call.args.scenario
            n == Len(scenario.options)
            c == FlaggedCorrect(scenario)
            result == call.result
        IN  /\ result.score <= c
            /\ scenario.type \in SimulationTypes =>
                   result.total_questions = n
            /\ result.percentage.num * n <= 100 * c * result.percentage.den
            /\ \A more \in SimulationAnswerMaps :
                   AddsIncorrectChoices(more, call.args.answers, scenario) =>
                       grade_simulation(scenario, more).score >= result.score
            /\ 10 * c < 7 * n => ~result.passed

\* One option flagged correct out of MaxOptions, chosen together with an
\* unflagged one: the highest score, and not passed.
C30_Witness ==
    /\ call.fn = "grade_simulation"
    /\ call.args.scenario.type = "phishing"
    /\ Len(call.args.scenario.options) = MaxOptions
    /\ FlaggedCorrect(call.args.scenario) = 1
    /\ call.args.scenario.options[2].correct
    /\ call.args.answers["b"] = "b"
    /\ call.args.answers["a"] = "a"
    /\ call.result.score = 1
    /\ ~call.result.passed

\* The stored simulation records of a learner, module and simulation type.
SimulationRecordsOf(u, m, t) ==
    {i \in DOMAIN simulation_result :
        /\ simulation_result[i].user_id = u
        /\ simulation_result[i].module_id = m
        /\ simulation_result[i].simulation_type = t}

\* C24: however many simulation results were saved for a learner, module
\* and simulation type, there is at most one record for that triple (the
\* one the re-attempts overwrite).
C24_OneSimulationRecordPerTriple ==
    \A u \in Learners, m \in Modules \cup {NoneInt}, t \in SimulationTypes :
        Cardinality(SimulationRecordsOf(u, m, t)) <= 1

\* C26: a simulation of a valid type submitted through submit_simulation
\* leaves a simulation result with completed = true stored for the learner.
C26_SubmittedSimulationIsRecorded ==
    [][\A u \in Learners :
          (/\ response' # response
           /\ response'.route = "submit_simulation"
           /\ response'.user_id = u) =>
              \E i \in DOMAIN simulation_result' :
                  /\ simulation_result'[i].user_id = u
                  /\ simulation_result'[i].completed]_vars

\* C25: when a learner who has passed the final assessment submits the
\* survey with a rating in 1..5 and the save does not fail, submit_survey
\* records a survey row for the learner (after which the certificate request
\* is granted).
C25_SurveySubmissionRecorded ==
    [][\A u \in Learners :
          (/\ HasPassedFinal(u)
           /\ \E rating \in 1..5 : submit_survey(u, rating, "", TRUE)) =>
              \E i \in DOMAIN feedback_survey' :
                  feedback_survey'[i].user_id = u]_vars

\* C27: the modules accessible to a learner form a prefix of the ordered
\* module list: if the module at position k + 1 is accessible, so is the
\* one at position k, and for k > 1 the module at position k - 1 is fully
\* completed.
C27_UnlockChainContiguous ==
    \A u \in Learners, k \in 1..(NumModules - 1) :
        AccessibleModules(u)[k + 1] =>
            /\ AccessibleModules(u)[k]
            /\ k > 1 =>
                   is_module_fully_completed(u, Module_get_all_ordered[k - 1])

\* C28: every stored knowledge_check record has passed = true exactly when
\* score / total_questions * 100 >= 80, whichever path stored it.
C28_StoredPassFlagIs80Percent ==
    \A i \in DOMAIN assessment_result :
        assessment_result[i].assessment_type = "knowledge_check" =>
            (assessment_result[i].passed <=>
                /\ assessment_result[i].total_questions > 0
                /\ assessment_result[i].score * 100
                       >= 80 * assessment_result[i].total_questions)

\* The record is below 80%.
Below80Percent(r) ==
    r.total_questions = 0 \/ r.score * 100 < 80 * r.total_questions

\* C29: module completion follows the most recent knowledge-check record:
\* when the latest record of a learner for a module is below 80%,
\* is_module_fully_completed is false and the next module is inaccessible,
\* also when an earlier record was at 80% or more; when the latest record is
\* at 80% or more (and the simulation, where required, is completed) it is
\* true, also after an earlier failed one.
C29_LatestAttemptDecides ==
    \A u \in Learners, m \in Modules :
        LET rows == KnowledgeCheckResults(u, m) IN
        rows # <<>> =>
            IF Below80Percent(rows[Len(rows)])
            THEN /\ ~is_module_fully_completed(u, m)
                 /\ m < NumModules =>
                        /\ ~AccessibleModules(u)[m + 1]
                        /\ ~PreviousModuleCompleted(u, m + 1)
            ELSE (has_simulation(m) => CompletedSimulationExists(u, m)) =>
                     /\ is_module_fully_completed(u, m)
                     /\ m < NumModules => AccessibleModules(u)[m + 1]

\* A learner passed the first module, then failed it, then passed it
\* again: the module is fully completed and the second one accessible.
C29_Witness ==
    \E u \in Learners :
        LET rows == KnowledgeCheckResults(u, 1) IN
        /\ Len(rows) = 3
        /\ ~Below80Percent(rows[1])
        /\ Below80Percent(rows[2])
        /\ ~Below80Percent(rows[3])
        /\ is_module_fully_completed(u, 1)
        /\ AccessibleModules(u)[2]

====
